---- MODULE Spec2Model ----
(***************************************************************************)
(* A model of the afd Forth interpreter (src/afd.rs): the value stack, the *)
(* dictionary, the number parser, the builtin dispatcher, the evaluator    *)
(* with its compile-mode flag and the read-eval-print loop.                *)
(*                                                                         *)
(* Bytes are numbers 0..255, a token or a line is a sequence of bytes.     *)
(* The value stack is the live part data[0 .. top) of ForthStack, so that  *)
(* top = Len(stack); the dictionary is the live part                       *)
(* dictionary[0 .. dict_top), so that dict_top = Len(dictionary), and      *)
(* entry number i of the code is dictionary[i + 1] here.                   *)
(***************************************************************************)
EXTENDS Integers, Sequences, FiniteSets, TLC

(***************************************************************************)
(* Program constants.                                                      *)
(***************************************************************************)
STACK_SIZE == 64
INPUT_BUFFER_SIZE == 256
WORD_BUFFER_SIZE == 32
DICTIONARY_SIZE == 32
MAX_WORD_NAME_LEN == 16

BUILTIN_ADD == 1
BUILTIN_SUB == 2
BUILTIN_MUL == 3
BUILTIN_DIV == 4
BUILTIN_MOD == 5
BUILTIN_DUP == 6
BUILTIN_DROP == 7
BUILTIN_SWAP == 8
BUILTIN_OVER == 9
BUILTIN_ROT == 10
BUILTIN_DOT == 11
BUILTIN_DOTS == 12
BUILTIN_CR == 13
BUILTIN_BYE == 14
BUILTIN_COLON == 15
BUILTIN_SEMICOLON == 16
BUILTIN_EQUAL == 17
BUILTIN_LESS == 18
BUILTIN_GREATER == 19
BUILTIN_WORDS == 20

(***************************************************************************)
(* Signed 32-bit integers.  The sums, differences and products of the code *)
(* are i32 operations: with overflow checks compiled in they panic on      *)
(* overflow, without them they wrap modulo 2^32.  Every operator below     *)
(* stays inside the 32-bit range while it computes.                        *)
(***************************************************************************)
I32_MAX == 2147483647
I32_MIN == -I32_MAX - 1

AddOverflows(a, b) ==
    \/ b > 0 /\ a > I32_MAX - b
    \/ b < 0 /\ a < I32_MIN - b

\* a + b reduced modulo 2^32 into the signed range
WrappingAdd(a, b) ==
    IF b > 0 /\ a > I32_MAX - b THEN ((a - I32_MAX) - 1) + ((b - I32_MAX) - 1)
    ELSE IF b < 0 /\ a < I32_MIN - b THEN ((a + I32_MAX) + 1) + ((b + I32_MAX) + 1)
    ELSE a + b

\* -a reduced modulo 2^32: the most negative value is its own negation
WrappingNeg(a) == IF a = I32_MIN THEN I32_MIN ELSE -a

NegOverflows(a) == a = I32_MIN

SubOverflows(a, b) ==
    \/ b < 0 /\ a > I32_MAX + b
    \/ b > 0 /\ a < I32_MIN + b

\* a - b reduced modulo 2^32 into the signed range
WrappingSub(a, b) ==
    IF b = I32_MIN THEN WrappingAdd(WrappingAdd(a, I32_MAX), 1)
    ELSE WrappingAdd(a, -b)

\* the absolute value as a natural number, for a # I32_MIN
Abs(a) == IF a < 0 THEN -a ELSE a

\* a * b for naturals a, b overflows the signed range
NatMulOverflows(a, b) == a # 0 /\ b > I32_MAX \div a

MulOverflows(a, b) ==
    IF a = 0 \/ b = 0 THEN FALSE
    ELSE IF a = I32_MIN THEN b # 1
    ELSE IF b = I32_MIN THEN a # 1
    ELSE IF (a < 0) = (b < 0) THEN NatMulOverflows(Abs(a), Abs(b))
    ELSE \* a negative product may reach I32_MIN = -(I32_MAX + 1)
         /\ NatMulOverflows(Abs(a), Abs(b))
         /\ ~(Abs(b) - 1 = I32_MAX \div Abs(a) /\ I32_MAX % Abs(a) = Abs(a) - 1)

\* a * b reduced modulo 2^32, by doubling a and halving b bit by bit
RECURSIVE WrappingMulNat(_, _)
WrappingMulNat(a, n) ==
    IF n = 0 \/ a = 0 THEN 0
    ELSE LET rest == WrappingMulNat(WrappingAdd(a, a), n \div 2)
         IN  IF n % 2 = 1 THEN WrappingAdd(a, rest) ELSE rest

WrappingMul(a, b) ==
    IF b >= 0 THEN WrappingMulNat(a, b)
    ELSE IF b = I32_MIN
         THEN \* a * 2^31 modulo 2^32 is 2^31 for odd a and 0 for even a
              IF a % 2 = 1 THEN I32_MIN ELSE 0
    ELSE WrappingNeg(WrappingMulNat(a, -b))

\* the quotient truncated toward zero, for b # 0 and not (a = I32_MIN, b = -1)
TruncDiv(a, b) ==
    IF a = I32_MIN
    THEN IF b = I32_MIN THEN 1
         ELSE IF b > 0 THEN (-((I32_MAX - (b - 1)) \div b)) - 1
         ELSE (((I32_MAX - ((-b) - 1)) \div (-b)) + 1)
    ELSE IF b = I32_MIN THEN 0
    ELSE IF (a < 0) = (b < 0) THEN Abs(a) \div Abs(b)
    ELSE -(Abs(a) \div Abs(b))

\* the remainder with the sign of the dividend, as a - b * TruncDiv(a, b)
TruncRem(a, b) ==
    IF a = I32_MIN /\ b = I32_MIN THEN 0
    ELSE IF b = I32_MIN THEN a
    ELSE IF a = I32_MIN
         THEN LET m == Abs(b)
                  r == ((I32_MAX % m) + 1) % m
              IN  -r
    ELSE IF a < 0 THEN -(Abs(a) % Abs(b))
    ELSE a % Abs(b)

\* the division instructions trap on the one quotient that is out of range
DivOverflows(a, b) == a = I32_MIN /\ b = -1


(***************************************************************************)
(* The state of the program.                                               *)
(***************************************************************************)
VARIABLES
    stack,              \* ForthStack: the items data[0 .. top), bottom first
    dictionary,         \* the entries dictionary[0 .. dict_top), oldest first
    user_words_top,     \* write offset into the user word body buffer
    compiling,          \* the compile-mode flag
    current_def_start,  \* body buffer offset recorded by the last ":"
    input_buffer,       \* the bytes of the line before its terminating 0
    pos,                \* cursor of process_line into input_buffer, from 0
    pc,                 \* "read", "eval", "exited", "panicked" or "killed"
    exit_code,          \* the code given to SYS_EXIT, -1 while running
    out,                \* what was written since the last prompt
    overflow_checks,    \* whether the build panics on arithmetic overflow
    start_outcome,      \* what the build makes of the entry into _start
    last,               \* history: the last evaluation step and the session
                        \* before it
    colon_dict_top,     \* history: dict_top when ":" last succeeded
    lines_read,         \* number of lines typed so far
    unread,             \* standard input: the bytes typed and not yet read
    continued,          \* history: input_buffer holds what read_line left
                        \* unread of a line that was longer than the buffer
    input_kind,         \* the family of lines that is typed in this session
    prev,               \* history: the step before the last one
    registered,         \* history: the tokens defined as user words so far
    pushed,             \* ForthStack alone: the values pushed, in order
    popped              \* ForthStack alone: the values popped, in order

vars == <<stack, dictionary, user_words_top, compiling, current_def_start,
          input_buffer, pos, pc, exit_code, out, overflow_checks,
          start_outcome, last,
          colon_dict_top, lines_read, unread, continued, input_kind,
          prev, registered, pushed, popped>>

(***************************************************************************)
(* What is written: a literal string of the program or the bytes of a      *)
(* number or of a name.                                                    *)
(***************************************************************************)
Str(s) == [str |-> s, bytes |-> <<>>]
Bytes(b) == [str |-> "", bytes |-> b]

(***************************************************************************)
(* ForthStack                                                              *)
(***************************************************************************)
\* push with the capacity test off by one
push_off_by_one(st, value) ==
    IF Len(st) > STACK_SIZE
    THEN [ok |-> FALSE, err |-> "Stack overflow", stack |-> st]
    ELSE [ok |-> TRUE, err |-> "", stack |-> Append(st, value)]

push(st, value) ==
    IF Len(st) >= STACK_SIZE
    THEN [ok |-> FALSE, err |-> "Stack overflow", stack |-> st]
    ELSE [ok |-> TRUE, err |-> "", stack |-> Append(st, value)]

\* pop that reads the slot below the one it frees
pop_slot_below(st) ==
    IF Len(st) = 0
    THEN [ok |-> FALSE, err |-> "Stack underflow", stack |-> st, value |-> 0]
    ELSE [ok |-> TRUE, err |-> "", stack |-> SubSeq(st, 1, Len(st) - 1),
          value |-> st[IF Len(st) > 1 THEN Len(st) - 1 ELSE 1]]

pop(st) ==
    IF Len(st) = 0
    THEN [ok |-> FALSE, err |-> "Stack underflow", stack |-> st, value |-> 0]
    ELSE [ok |-> TRUE, err |-> "", stack |-> SubSeq(st, 1, Len(st) - 1),
          value |-> st[Len(st)]]

peek(st) ==
    IF Len(st) = 0
    THEN [ok |-> FALSE, err |-> "Stack empty", value |-> 0]
    ELSE [ok |-> TRUE, err |-> "", value |-> st[Len(st)]]

size(st) == Len(st)

(***************************************************************************)
(* The session record handed to the evaluator, and the four ways in which  *)
(* an evaluation ends: Ok(false), Ok(true), Err(message), or a panic.      *)
(***************************************************************************)
Session == [stack |-> stack, dictionary |-> dictionary,
            user_words_top |-> user_words_top, compiling |-> compiling,
            current_def_start |-> current_def_start]

Ok(s, o) == [res |-> "ok", err |-> "", s |-> s, out |-> o]
Exit(s, o) == [res |-> "exit", err |-> "", s |-> s, out |-> o]
Err(s, e, o) == [res |-> "err", err |-> e, s |-> s, out |-> o]
Panic(s, o) == [res |-> "panic", err |-> "", s |-> s, out |-> o]

\* a push that, while compiling, records one byte in the body buffer instead
PushOk_recorded(s, v) ==
    LET p == push(s.stack, v)
    IN  IF s.compiling THEN Ok([s EXCEPT !.user_words_top = @ + 1], <<>>)
        ELSE IF p.ok THEN Ok([s EXCEPT !.stack = p.stack], <<>>)
        ELSE Err(s, p.err, <<>>)

\* self.stack.push(v)?; followed by the Ok(false) that ends execute_builtin
PushOk(s, v) ==
    LET p == push(s.stack, v)
    IN  IF p.ok THEN Ok([s EXCEPT !.stack = p.stack], <<>>)
        ELSE Err(s, p.err, <<>>)

\* let b = self.stack.pop()?; let a = self.stack.pop()?;
Pop2(s) ==
    LET pb == pop(s.stack)
    IN  IF ~pb.ok THEN [ok |-> FALSE, err |-> pb.err, s |-> s, a |-> 0, b |-> 0]
        ELSE LET pa == pop(pb.stack)
             IN  IF ~pa.ok
                 THEN [ok |-> FALSE, err |-> pa.err,
                       s |-> [s EXCEPT !.stack = pb.stack], a |-> 0, b |-> 0]
                 ELSE [ok |-> TRUE, err |-> "",
                       s |-> [s EXCEPT !.stack = pa.stack],
                       a |-> pa.value, b |-> pb.value]


(***************************************************************************)
(* print_num: the bytes written for n.  The buffer is filled from the      *)
(* right with the digits of the negated value when n is negative, then the *)
(* sign.  Negating the most negative value overflows: the build with       *)
(* overflow checks panics, the other one keeps the negative value, finds   *)
(* no digit to write and writes the sign alone.                            *)
(***************************************************************************)
RECURSIVE Digits(_)
Digits(num) ==
    IF num > 0 THEN Append(Digits(num \div 10), (num % 10) + 48) ELSE <<>>

print_num(n) ==
    LET negative == n < 0
        num == IF negative THEN WrappingNeg(n) ELSE n
    IN  IF negative /\ NegOverflows(n) /\ overflow_checks
        THEN [panic |-> TRUE, out |-> <<>>]
        ELSE IF num = 0 THEN [panic |-> FALSE, out |-> <<Str("0")>>]
        ELSE [panic |-> FALSE,
              out |-> <<Bytes((IF negative THEN <<45>> ELSE <<>>) \o Digits(num))>>]

\* for i in 0..size { print_num(data[i]); print_str(" ") }: every item
\* writes its number and a space, up to the first item whose print_num panics
PrintItems(st) ==
    LET panics == {i \in 1..Len(st) : print_num(st[i]).panic}
        n == IF panics = {} THEN Len(st)
             ELSE (CHOOSE i \in panics : \A k \in panics : i <= k) - 1
    IN  [panic |-> panics # {},
         out |-> [k \in 1..(2 * n) |->
                    IF k % 2 = 1 THEN print_num(st[(k + 1) \div 2]).out[1]
                    ELSE Str(" ")]]

\* for i in 0..dict_top { print_str(name); print_str(" ") }
PrintNames(d) ==
    [k \in 1..(2 * Len(d)) |->
        IF k % 2 = 1 THEN Bytes(d[(k + 1) \div 2].name) ELSE Str(" ")]

\* an arithmetic result: the panic of a checked build, or the push
Arith(s, overflows, value) ==
    IF overflows /\ overflow_checks THEN Panic(s, <<>>) ELSE PushOk(s, value)

(***************************************************************************)
(* execute_builtin, one operator per match arm.                            *)
(***************************************************************************)
builtin_ADD(s) ==
    LET p == Pop2(s)
    IN  IF ~p.ok THEN Err(p.s, p.err, <<>>)
        ELSE Arith(p.s, AddOverflows(p.a, p.b), WrappingAdd(p.a, p.b))

builtin_SUB(s) ==
    LET p == Pop2(s)
    IN  IF ~p.ok THEN Err(p.s, p.err, <<>>)
        ELSE Arith(p.s, SubOverflows(p.a, p.b), WrappingSub(p.a, p.b))

builtin_MUL(s) ==
    LET p == Pop2(s)
    IN  IF ~p.ok THEN Err(p.s, p.err, <<>>)
        ELSE Arith(p.s, MulOverflows(p.a, p.b), WrappingMul(p.a, p.b))

\* "/" that looks at the divisor before it removes the operands
builtin_DIV_peek(s) ==
    LET p == Pop2(s)
    IN  IF ~p.ok THEN Err(p.s, p.err, <<>>)
        ELSE IF p.b = 0 THEN Err(s, "Division by zero", <<>>)
        ELSE IF DivOverflows(p.a, p.b) THEN Panic(p.s, <<>>)
        ELSE PushOk(p.s, TruncDiv(p.a, p.b))

builtin_DIV(s) ==
    LET p == Pop2(s)
    IN  IF ~p.ok THEN Err(p.s, p.err, <<>>)
        ELSE IF p.b = 0 THEN Err(p.s, "Division by zero", <<>>)
        ELSE IF DivOverflows(p.a, p.b) THEN Panic(p.s, <<>>)
        ELSE PushOk(p.s, TruncDiv(p.a, p.b))

builtin_MOD(s) ==
    LET p == Pop2(s)
    IN  IF ~p.ok THEN Err(p.s, p.err, <<>>)
        ELSE IF p.b = 0 THEN Err(p.s, "Division by zero", <<>>)
        ELSE IF DivOverflows(p.a, p.b) THEN Panic(p.s, <<>>)
        ELSE PushOk(p.s, TruncRem(p.a, p.b))

builtin_DUP(s) ==
    LET a == peek(s.stack)
    IN  IF ~a.ok THEN Err(s, a.err, <<>>) ELSE PushOk(s, a.value)

\* "drop" that checks for an item and leaves it
builtin_DROP_keeps(s) ==
    LET p == pop(s.stack)
    IN  IF ~p.ok THEN Err(s, p.err, <<>>) ELSE Ok(s, <<>>)

builtin_DROP(s) ==
    LET p == pop(s.stack)
    IN  IF ~p.ok THEN Err(s, p.err, <<>>)
        ELSE Ok([s EXCEPT !.stack = p.stack], <<>>)

builtin_SWAP(s) ==
    LET p == Pop2(s)
    IN  IF ~p.ok THEN Err(p.s, p.err, <<>>)
        ELSE LET p1 == push(p.s.stack, p.b)
             IN  IF ~p1.ok THEN Err(p.s, p1.err, <<>>)
                 ELSE PushOk([p.s EXCEPT !.stack = p1.stack], p.a)

\* "over" that finds the stack full only after it has removed both items
builtin_OVER_lossy(s) ==
    LET p == Pop2(s)
    IN  IF ~p.ok THEN Err(p.s, p.err, <<>>)
        ELSE IF Len(s.stack) >= STACK_SIZE THEN Err(p.s, "Stack overflow", <<>>)
        ELSE PushOk([p.s EXCEPT !.stack = p.s.stack \o <<p.a, p.b>>], p.a)

builtin_OVER(s) ==
    LET p == Pop2(s)
    IN  IF ~p.ok THEN Err(p.s, p.err, <<>>)
        ELSE LET p1 == push(p.s.stack, p.a)
             IN  IF ~p1.ok THEN Err(p.s, p1.err, <<>>)
                 ELSE LET p2 == push(p1.stack, p.b)
                          s1 == [p.s EXCEPT !.stack = p1.stack]
                      IN  IF ~p2.ok THEN Err(s1, p2.err, <<>>)
                          ELSE PushOk([p.s EXCEPT !.stack = p2.stack], p.a)

\* "rot" that turns the three items the other way: c a b
builtin_ROT_other_way(s) ==
    LET pc3 == pop(s.stack)
    IN  IF ~pc3.ok THEN Err(s, pc3.err, <<>>)
        ELSE LET p == Pop2([s EXCEPT !.stack = pc3.stack])
             IN  IF ~p.ok THEN Err(p.s, p.err, <<>>)
                 ELSE LET p1 == push(p.s.stack, pc3.value)
                      IN  IF ~p1.ok THEN Err(p.s, p1.err, <<>>)
                          ELSE LET p2 == push(p1.stack, p.a)
                                   s1 == [p.s EXCEPT !.stack = p1.stack]
                               IN  IF ~p2.ok THEN Err(s1, p2.err, <<>>)
                                   ELSE PushOk([p.s EXCEPT !.stack = p2.stack], p.b)

builtin_ROT(s) ==
    LET pc3 == pop(s.stack)
    IN  IF ~pc3.ok THEN Err(s, pc3.err, <<>>)
        ELSE LET p == Pop2([s EXCEPT !.stack = pc3.stack])
             IN  IF ~p.ok THEN Err(p.s, p.err, <<>>)
                 ELSE \* here p.b is b, p.a is a and pc3.value is c
                      LET p1 == push(p.s.stack, p.b)
                      IN  IF ~p1.ok THEN Err(p.s, p1.err, <<>>)
                          ELSE LET p2 == push(p1.stack, pc3.value)
                                   s1 == [p.s EXCEPT !.stack = p1.stack]
                               IN  IF ~p2.ok THEN Err(s1, p2.err, <<>>)
                                   ELSE PushOk([p.s EXCEPT !.stack = p2.stack], p.a)

builtin_DOT(s) ==
    LET p == pop(s.stack)
    IN  IF ~p.ok THEN Err(s, p.err, <<>>)
        ELSE LET s1 == [s EXCEPT !.stack = p.stack]
                 w == print_num(p.value)
             IN  IF w.panic THEN Panic(s1, <<>>)
                 ELSE Ok(s1, w.out \o <<Str(" ")>>)

builtin_DOTS(s) ==
    LET n == print_num(size(s.stack))
        items == PrintItems(s.stack)
        o == <<Str("<")>> \o n.out \o <<Str("> ")>> \o items.out
    IN  IF items.panic THEN Panic(s, o) ELSE Ok(s, o)

builtin_CR(s) == Ok(s, <<Str("\n")>>)

builtin_BYE(s) == Exit(s, <<Str("Goodbye!\n")>>)

\* ":" that starts a definition whatever the mode
builtin_COLON_unchecked(s) ==
    Ok([s EXCEPT !.compiling = TRUE,
                 !.current_def_start = s.user_words_top], <<>>)

builtin_COLON(s) ==
    IF s.compiling THEN Err(s, "Already compiling", <<>>)
    ELSE Ok([s EXCEPT !.compiling = TRUE,
                      !.current_def_start = s.user_words_top], <<>>)

builtin_SEMICOLON(s) ==
    IF ~s.compiling THEN Err(s, "Not compiling", <<>>)
    ELSE Ok([s EXCEPT !.compiling = FALSE], <<>>)

builtin_EQUAL(s) ==
    LET p == Pop2(s)
    IN  IF ~p.ok THEN Err(p.s, p.err, <<>>)
        ELSE PushOk(p.s, IF p.a = p.b THEN -1 ELSE 0)

builtin_LESS(s) ==
    LET p == Pop2(s)
    IN  IF ~p.ok THEN Err(p.s, p.err, <<>>)
        ELSE PushOk(p.s, IF p.a < p.b THEN -1 ELSE 0)

builtin_GREATER(s) ==
    LET p == Pop2(s)
    IN  IF ~p.ok THEN Err(p.s, p.err, <<>>)
        ELSE PushOk(p.s, IF p.a > p.b THEN -1 ELSE 0)

builtin_WORDS(s) ==
    Ok(s, <<Str("Words: ")>> \o PrintNames(s.dictionary) \o <<Str("\n")>>)

execute_builtin(s, id) ==
    CASE id = BUILTIN_ADD -> builtin_ADD(s)
      [] id = BUILTIN_SUB -> builtin_SUB(s)
      [] id = BUILTIN_MUL -> builtin_MUL(s)
      [] id = BUILTIN_DIV -> builtin_DIV(s)
      [] id = BUILTIN_MOD -> builtin_MOD(s)
      [] id = BUILTIN_DUP -> builtin_DUP(s)
      [] id = BUILTIN_DROP -> builtin_DROP(s)
      [] id = BUILTIN_SWAP -> builtin_SWAP(s)
      [] id = BUILTIN_OVER -> builtin_OVER(s)
      [] id = BUILTIN_ROT -> builtin_ROT(s)
      [] id = BUILTIN_DOT -> builtin_DOT(s)
      [] id = BUILTIN_DOTS -> builtin_DOTS(s)
      [] id = BUILTIN_CR -> builtin_CR(s)
      [] id = BUILTIN_BYE -> builtin_BYE(s)
      [] id = BUILTIN_COLON -> builtin_COLON(s)
      [] id = BUILTIN_SEMICOLON -> builtin_SEMICOLON(s)
      [] id = BUILTIN_EQUAL -> builtin_EQUAL(s)
      [] id = BUILTIN_LESS -> builtin_LESS(s)
      [] id = BUILTIN_GREATER -> builtin_GREATER(s)
      [] id = BUILTIN_WORDS -> builtin_WORDS(s)
      [] OTHER -> Err(s, "Unknown builtin", <<>>)


(***************************************************************************)
(* The dictionary.                                                         *)
(***************************************************************************)
Min(a, b) == IF a < b THEN a ELSE b

\* the entry written by add_builtin over a DictionaryEntry::new()
BuiltinEntry(name, id) ==
    [name |-> SubSeq(name, 1, Min(Len(name), MAX_WORD_NAME_LEN)),
     is_builtin |-> TRUE, builtin_id |-> id,
     user_word_start |-> 0, user_word_len |-> 0]

add_builtin(d, name, id) ==
    IF Len(d) >= DICTIONARY_SIZE THEN d
    ELSE Append(d, BuiltinEntry(name, id))

\* the names of the builtins, in the order of init_builtins
BuiltinNames ==
    << <<43>>,                      \* +
       <<45>>,                      \* -
       <<42>>,                      \* *
       <<47>>,                      \* /
       <<109, 111, 100>>,           \* mod
       <<100, 117, 112>>,           \* dup
       <<100, 114, 111, 112>>,      \* drop
       <<115, 119, 97, 112>>,       \* swap
       <<111, 118, 101, 114>>,      \* over
       <<114, 111, 116>>,           \* rot
       <<46>>,                      \* .
       <<46, 115>>,                 \* .s
       <<99, 114>>,                 \* cr
       <<98, 121, 101>>,            \* bye
       <<58>>,                      \* :
       <<59>>,                      \* ;
       <<61>>,                      \* =
       <<60>>,                      \* <
       <<62>>,                      \* >
       <<119, 111, 114, 100, 115>>  \* words
    >>

\* the dictionary after the first n registrations of init_builtins; the
\* builtin of name number n has the id n
RECURSIVE init_builtins(_)
init_builtins(n) ==
    IF n = 0 THEN <<>>
    ELSE add_builtin(init_builtins(n - 1), BuiltinNames[n], n)

(***************************************************************************)
(* parse_number: None, Some(value), or the panic of a checked build when   *)
(* the accumulation overflows.                                             *)
(***************************************************************************)
RECURSIVE ParseDigits(_, _, _)
ParseDigits(word, i, result) ==
    IF i > Len(word) THEN [some |-> TRUE, value |-> result, panic |-> FALSE]
    ELSE LET byte == word[i]
         IN  IF byte < 48 \/ byte > 57
             THEN [some |-> FALSE, value |-> 0, panic |-> FALSE]
             ELSE LET digit == byte - 48
                      times10 == WrappingMul(result, 10)
                      overflows == \/ MulOverflows(result, 10)
                                   \/ AddOverflows(times10, digit)
                  IN  IF overflows /\ overflow_checks
                      THEN [some |-> FALSE, value |-> 0, panic |-> TRUE]
                      ELSE ParseDigits(word, i + 1, WrappingAdd(times10, digit))

parse_number(word) ==
    IF Len(word) = 0 THEN [some |-> FALSE, value |-> 0, panic |-> FALSE]
    ELSE LET negative == word[1] = 45
             start == IF negative THEN 1 ELSE 0
         IN  IF negative /\ Len(word) = 1
             THEN [some |-> FALSE, value |-> 0, panic |-> FALSE]
             ELSE LET r == ParseDigits(word, start + 1, 0)
                  IN  IF ~r.some \/ ~negative THEN r
                      ELSE IF NegOverflows(r.value) /\ overflow_checks
                      THEN [some |-> FALSE, value |-> 0, panic |-> TRUE]
                      ELSE [r EXCEPT !.value = WrappingNeg(r.value)]

(***************************************************************************)
(* Lookup.                                                                 *)
(***************************************************************************)
word_matches(word, target) ==
    /\ Len(word) = Len(target)
    /\ \A i \in 1..Len(word) : word[i] = target[i]

\* the scan of find_word from entry number i (counted from 0) downwards
RECURSIVE FindFrom(_, _, _)
FindFrom(d, word, i) ==
    IF i < 0 THEN [found |-> FALSE, index |-> 0]
    ELSE IF word_matches(word, d[i + 1].name) THEN [found |-> TRUE, index |-> i]
    ELSE FindFrom(d, word, i - 1)

\* the scan from the oldest entry upwards
RECURSIVE FindUpFrom(_, _, _)
FindUpFrom(d, word, i) ==
    IF i >= Len(d) THEN [found |-> FALSE, index |-> 0]
    ELSE IF word_matches(word, d[i + 1].name) THEN [found |-> TRUE, index |-> i]
    ELSE FindUpFrom(d, word, i + 1)

find_word_oldest(d, word) == FindUpFrom(d, word, 0)

find_word(d, word) == FindFrom(d, word, Len(d) - 1)

(***************************************************************************)
(* execute_word                                                            *)
(***************************************************************************)
\* the entry with the whole word for its name
UserEntry_whole(s, word) ==
    [name |-> word, is_builtin |-> FALSE, builtin_id |-> 0,
     user_word_start |-> s.current_def_start,
     user_word_len |-> s.user_words_top - s.current_def_start]

\* the entry written for the word being defined
UserEntry(s, word) ==
    [name |-> SubSeq(word, 1, Min(Len(word), MAX_WORD_NAME_LEN)),
     is_builtin |-> FALSE, builtin_id |-> 0,
     user_word_start |-> s.current_def_start,
     user_word_len |-> s.user_words_top - s.current_def_start]

\* the registration without the test of the capacity
define_user_unbounded(s, word) ==
    Ok([s EXCEPT !.dictionary = Append(s.dictionary, UserEntry(s, word))], <<>>)

define_user(s, word) ==
    IF Len(s.dictionary) >= DICTIONARY_SIZE THEN Err(s, "Dictionary full", <<>>)
    ELSE Ok([s EXCEPT !.dictionary = Append(s.dictionary, UserEntry(s, word))],
            <<>>)

\* execute_word that runs a user word by pushing the start of its span
execute_word_user_pushes(s, word) ==
    LET num == parse_number(word)
        f == find_word(s.dictionary, word)
    IN  IF num.panic THEN Panic(s, <<>>)
        ELSE IF num.some THEN PushOk(s, num.value)
        ELSE IF f.found
        THEN LET entry == s.dictionary[f.index + 1]
             IN  IF entry.is_builtin THEN execute_builtin(s, entry.builtin_id)
                 ELSE PushOk(s, entry.user_word_start)
        ELSE IF s.compiling THEN define_user(s, word)
        ELSE Err(s, "Unknown word",
                 <<Str("Unknown word: "), Bytes(word), Str("\n")>>)

\* execute_word that, while compiling, defines the word without looking it up
execute_word_defines_unseen(s, word) ==
    LET num == parse_number(word)
        f == find_word(s.dictionary, word)
    IN  IF num.panic THEN Panic(s, <<>>)
        ELSE IF num.some THEN PushOk(s, num.value)
        ELSE IF s.compiling THEN define_user(s, word)
        ELSE IF f.found
        THEN LET entry == s.dictionary[f.index + 1]
             IN  IF entry.is_builtin THEN execute_builtin(s, entry.builtin_id)
                 ELSE Ok(s, <<>>)
        ELSE Err(s, "Unknown word",
                 <<Str("Unknown word: "), Bytes(word), Str("\n")>>)

execute_word(s, word) ==
    LET num == parse_number(word)
        f == find_word(s.dictionary, word)
    IN  IF num.panic THEN Panic(s, <<>>)
        ELSE IF num.some THEN PushOk(s, num.value)
        ELSE IF f.found
        THEN LET entry == s.dictionary[f.index + 1]
             IN  IF entry.is_builtin THEN execute_builtin(s, entry.builtin_id)
                 ELSE Ok(s, <<>>)
        ELSE IF s.compiling THEN define_user(s, word)
        ELSE Err(s, "Unknown word",
                 <<Str("Unknown word: "), Bytes(word), Str("\n")>>)


(***************************************************************************)
(* process_line, one token at a time.  The buffer is zero from the end of  *)
(* the line on.                                                            *)
(***************************************************************************)
At(buf, p) == IF p < Len(buf) THEN buf[p + 1] ELSE 0

IsBlank(byte) == byte = 32 \/ byte = 9

RECURSIVE SkipWhitespace(_, _)
SkipWhitespace(buf, p) ==
    IF p < INPUT_BUFFER_SIZE /\ IsBlank(At(buf, p))
    THEN SkipWhitespace(buf, p + 1) ELSE p

AtEnd(buf, p) == p >= INPUT_BUFFER_SIZE \/ At(buf, p) = 0

RECURSIVE WordEnd(_, _)
WordEnd(buf, p) ==
    IF p < INPUT_BUFFER_SIZE /\ At(buf, p) # 0 /\ ~IsBlank(At(buf, p))
    THEN WordEnd(buf, p + 1) ELSE p

\* the bytes buf[start .. end) of the buffer
Slice(buf, start, end) == SubSeq(buf, start + 1, end)

\* one turn of the loop of process_line from the cursor p: the end of the
\* line, or the evaluation of the next word
process_token(s, buf, p) ==
    LET start == SkipWhitespace(buf, p)
        end == WordEnd(buf, start)
        word_len == end - start
    IN  IF AtEnd(buf, start)
        THEN [eol |-> TRUE, pos |-> start, word |-> <<>>, r |-> Ok(s, <<>>)]
        ELSE IF word_len >= WORD_BUFFER_SIZE
        THEN [eol |-> FALSE, pos |-> end, word |-> Slice(buf, start, end),
              r |-> Err(s, "Word too long", <<>>)]
        ELSE [eol |-> FALSE, pos |-> end, word |-> Slice(buf, start, end),
              r |-> execute_word(s, Slice(buf, start, end))]

(***************************************************************************)
(* The Err arm of run: the report, and the abort of a definition.          *)
(***************************************************************************)
\* the Err arm without the abort of the definition
run_error_no_abort(s, err) ==
    [s |-> s, out |-> <<Str("Error: "), Str(err), Str("\n")>>]

run_error(s, err) ==
    IF s.compiling
    THEN [s |-> [s EXCEPT !.compiling = FALSE,
                          !.user_words_top = s.current_def_start],
          out |-> <<Str("Error: "), Str(err), Str("\n"),
                    Str("Compilation aborted\n")>>]
    ELSE [s |-> s, out |-> <<Str("Error: "), Str(err), Str("\n")>>]


(***************************************************************************)
(* The input: the lines that the read primitive may deliver.  A line is    *)
(* one token, or two tokens of CoreTokens, or one of the longer lines of   *)
(* ExtraLines.                                                             *)
(***************************************************************************)
MaxLines == 2       \* lines read before the end of input

t_0 == <<48>>
t_1 == <<49>>
t_2 == <<50>>
t_3 == <<51>>
t_4 == <<52>>
t_m1 == <<45, 49>>
t_min == <<45, 50, 49, 52, 55, 52, 56, 51, 54, 52, 56>>   \* -2147483648
t_max == <<50, 49, 52, 55, 52, 56, 51, 54, 52, 55>>       \* 2147483647
t_big == <<50, 49, 52, 55, 52, 56, 51, 54, 52, 56>>       \* 2147483648
t_65536 == <<54, 53, 53, 51, 54>>
t_mm1 == <<45, 45, 49>>                                   \* --1
t_p5 == <<43, 53>>                                        \* +5
t_1a == <<49, 97>>                                        \* 1a
t_minus == BuiltinNames[BUILTIN_SUB]
t_plus == BuiltinNames[BUILTIN_ADD]
t_times == BuiltinNames[BUILTIN_MUL]
t_div == BuiltinNames[BUILTIN_DIV]
t_mod == BuiltinNames[BUILTIN_MOD]
t_dup == BuiltinNames[BUILTIN_DUP]
t_drop == BuiltinNames[BUILTIN_DROP]
t_swap == BuiltinNames[BUILTIN_SWAP]
t_over == BuiltinNames[BUILTIN_OVER]
t_rot == BuiltinNames[BUILTIN_ROT]
t_dot == BuiltinNames[BUILTIN_DOT]
t_dots == BuiltinNames[BUILTIN_DOTS]
t_bye == BuiltinNames[BUILTIN_BYE]
t_colon == BuiltinNames[BUILTIN_COLON]
t_semicolon == BuiltinNames[BUILTIN_SEMICOLON]
t_foo == <<102, 111, 111>>
t_sq == <<115, 113>>
\* a word of WORD_BUFFER_SIZE bytes
t_long == [i \in 1..WORD_BUFFER_SIZE |-> 120]
\* a name of MAX_WORD_NAME_LEN bytes, and the same with one more byte
t_name16 == [i \in 1..MAX_WORD_NAME_LEN |-> 97]
t_name17 == Append(t_name16, 98)
\* a word of one byte less than WORD_BUFFER_SIZE
t_word31 == [i \in 1..(WORD_BUFFER_SIZE - 1) |-> 121]

\* the tokens of the two-token lines
CoreTokens == {t_1, t_0, t_div, t_colon, t_foo}

\* the tokens of the one-token lines
SingleTokens ==
    CoreTokens \cup {BuiltinNames[i] : i \in 1..Len(BuiltinNames)}
               \cup {t_m1, t_name16}

\* the tokens separated by one space
RECURSIVE Join(_)
Join(ts) ==
    IF Len(ts) = 0 THEN <<>>
    ELSE IF Len(ts) = 1 THEN ts[1]
    ELSE ts[1] \o <<32>> \o Join(Tail(ts))

\* "1 dup dup ... dup 2 3", which leaves STACK_SIZE items
FillLine ==
    Join(<<t_1>> \o [i \in 1..(STACK_SIZE - 3) |-> t_dup] \o <<t_2, t_3>>)

\* ": " and one more name of 17 bytes than the dictionary has room for
DefineLine ==
    Join(<<t_colon>> \o [i \in 1..(DICTIONARY_SIZE - Len(BuiltinNames) + 1)
                                |-> t_name17])

\* zeros that spell 0 in one byte less than WORD_BUFFER_SIZE
t_zeros == [i \in 1..(WORD_BUFFER_SIZE - 1) |-> 48]

\* as many of them as fill the INPUT_BUFFER_SIZE - 1 bytes that read_line
\* stores, and then " 2"
LongLine ==
    Join([i \in 1..(INPUT_BUFFER_SIZE \div WORD_BUFFER_SIZE) |-> t_zeros])
        \o <<32>> \o t_2

ExtraLines ==
    { <<>>,
      Join(<<t_bye, t_1>>),
      Join(<<t_min, t_m1, t_div>>),
      Join(<<t_1, t_long, t_1>>),
      Join(<<t_colon, t_sq, t_dup, t_times, t_semicolon>>),
      Join(<<t_colon, t_foo, t_semicolon, t_foo>>),
      DefineLine,
      Join(<<t_3, t_1, t_0, t_mod>>),
      <<9>> \o Join(<<t_3, t_4, t_plus>>) \o <<32, 32>> \o t_dot,
      Join(<<t_1, t_2, t_3, t_rot, t_dots>>),
      FillLine }

\* the lines of a session about words and the dictionary
Lines ==
    {t : t \in SingleTokens}
        \cup {Join(<<a, b>>) : a \in CoreTokens, b \in CoreTokens}
        \cup ExtraLines

\* the lines of a session about numbers
NumberTokens ==
    {t_0, t_1, t_m1, t_max, t_min, t_65536, t_zeros, t_mm1, t_p5, t_1a,
     t_plus, t_minus, t_times, t_dot, t_colon, t_semicolon, t_bye}

NumberLines ==
    {t : t \in NumberTokens}
        \cup { Join(<<t_max, t_1, t_plus>>),
               Join(<<t_min, t_1, t_minus>>),
               Join(<<t_65536, t_65536, t_times>>),
               Join(<<t_0, t_big>>),
               Join(<<t_3, t_4, t_plus, t_dot>>),
               Join(<<t_min, t_dot>>),
               Join(<<t_m1, t_dot>>),
               Join(<<t_max, t_dot>>),
               Join(<<t_m1, t_max, t_minus, t_dot>>),
               Join(<<t_min, t_m1, t_div>>),
               Join(<<t_colon, t_1a, t_1, t_1a>>),
               FillLine }

\* the lines of a session about the sizes of the buffers
t_word64 == [i \in 1..(2 * WORD_BUFFER_SIZE) |-> 122]

LongLines ==
    { t_1, t_dot, t_dots, t_colon, t_bye, t_long, t_word31, t_word64,
      Append(t_word64, 122),
      Join(<<t_1, t_long, t_1>>),
      Join(<<t_1, t_word31, t_1>>),
      Join(<<t_2, t_word64, t_1>>),
      Join(<<t_colon, t_word31, t_long>>),
      Join(<<t_min, t_m1, t_div>>),
      LongLine }

\* the bytes that end a line: "\n" and "\r"
IsNewline(byte) == byte = 10 \/ byte = 13

\* read_line on the unread bytes of standard input: the bytes before the
\* first newline are stored and the newline is consumed; after
\* INPUT_BUFFER_SIZE - 1 bytes without a newline the loop stops and what
\* follows stays unread; at the end of the input before either, it is false
read_line(stream) ==
    LET limit == INPUT_BUFFER_SIZE - 1
        n == Min(Len(stream), limit)
        ends == {k \in 1..n : IsNewline(stream[k])}
    IN  IF ends # {}
        THEN LET k == CHOOSE e \in ends : \A x \in ends : e <= x
             IN  [ok |-> TRUE, buffer |-> SubSeq(stream, 1, k - 1),
                  rest |-> SubSeq(stream, k + 1, Len(stream))]
        ELSE IF Len(stream) >= limit
        THEN [ok |-> TRUE, buffer |-> SubSeq(stream, 1, limit),
              rest |-> SubSeq(stream, limit + 1, Len(stream))]
        ELSE [ok |-> FALSE, buffer |-> stream, rest |-> <<>>]

\* the last lines of a session about the sizes of the buffers: the input
\* ends after them, without a newline
LastLines == { t_1, Join(<<t_1, t_2>>), LongLine }

\* the lines of a session about the builtins that rearrange the stack
ShuffleLines ==
    { t_1, t_dup, t_drop, t_swap, t_over, t_rot, t_dots, t_div, t_bye,
      Join(<<t_1, t_2>>),
      Join(<<t_1, t_2, t_3>>),
      Join(<<t_min, t_0, t_max>>),
      Join(<<t_dup, t_drop>>),
      Join(<<t_swap, t_swap>>),
      Join(<<t_0, t_rot>>),
      Join(<<t_4, t_over, t_dots>>),
      Join(<<t_1, t_2, t_3, t_rot, t_dots>>),
      Join(<<t_colon, t_sq>>),
      Join(<<t_colon, t_sq, t_dup, t_times, t_semicolon>>),
      Join(<<t_colon, t_sq, t_3, t_0, t_mod>>),
      FillLine }

\* what read_line makes of each line that may be typed, newline included
TypedLines == {read_line(Append(l, 10)) : l \in Lines}
TypedNumberLines == {read_line(Append(l, 10)) : l \in NumberLines}
TypedLongLines == {read_line(Append(l, 10)) : l \in LongLines}
TypedShuffleLines == {read_line(Append(l, 10)) : l \in ShuffleLines}

\* the lines of a session about the names of the dictionary: definitions,
\* names of 16 and 17 bytes, and definitions that name a builtin
DictionaryLines ==
    { <<>>, t_1, t_dup, t_plus, t_colon, t_semicolon, t_bye, t_foo, t_sq,
      t_name16, t_name17,
      Join(<<t_colon, t_foo>>),
      Join(<<t_colon, t_dup>>),
      Join(<<t_colon, t_plus, t_semicolon>>),
      Join(<<t_colon, t_name16>>),
      Join(<<t_colon, t_name17, t_name17>>),
      Join(<<t_colon, t_sq, t_dup, t_times, t_semicolon>>),
      Join(<<t_colon, t_foo, t_semicolon, t_foo>>),
      Join(<<t_min, t_m1, t_div>>),
      DefineLine }

TypedDictionaryLines == {read_line(Append(l, 10)) : l \in DictionaryLines}

TypedLastLines == {read_line(l) : l \in LastLines}

\* what read_line makes of the line that the end of the input cuts short
TypedLast == IF input_kind = "long" THEN TypedLastLines ELSE {}

Typed ==
    CASE input_kind = "words" -> TypedLines
      [] input_kind = "numbers" -> TypedNumberLines
      [] input_kind = "long" -> TypedLongLines
      [] input_kind = "shuffle" -> TypedShuffleLines
      [] input_kind = "dictionary" -> TypedDictionaryLines

(***************************************************************************)
(* Init: the state after new() and init_builtins(), at the top of the loop *)
(* of run, for either build.                                               *)
(***************************************************************************)
Banner ==
    << Str("afd: Alien Forth Dialect v0.4\n"),
       Str("Type 'bye' to exit, '.s' to show stack, 'words' to list words\n"),
       Str("Available: + - * / mod dup drop swap over rot . .s cr bye\n"),
       Str("           = < > words : ;\n\n") >>

NoStep(s) == [res |-> "none", err |-> "", word |-> <<>>, before |-> s]

\* what is kept of a step when the next one is taken
Summary(l) == [res |-> l.res, word |-> l.word, stack |-> l.before.stack]

\* _start is declared extern "C" and is entered by the kernel at the process
\* entry, where the stack pointer is not the one a call leaves: the behaviour
\* of the function is undefined, and a build makes one of three things of
\* it.  The build runs as written; or the process is killed by SIGSEGV in
\* the copy of the first word that process_line copies into its word
\* buffer; or it is killed in _start before anything is written.
StartOutcomes == {"runs", "killed_in_copy", "killed_at_entry"}

InitFrom(st, d, kind) ==
    /\ start_outcome \in (IF kind = "stack" THEN {"runs"} ELSE StartOutcomes)
    /\ stack = st
    /\ dictionary = d
    /\ user_words_top = 0
    /\ compiling = FALSE
    /\ current_def_start = 0
    /\ input_buffer = <<>>
    /\ pos = 0
    /\ pc = (IF kind = "stack" THEN "stack"
             ELSE IF start_outcome = "killed_at_entry" THEN "killed"
             ELSE "read")
    /\ exit_code = -1
    /\ out = (IF start_outcome = "killed_at_entry" THEN <<>> ELSE Banner)
    /\ overflow_checks \in BOOLEAN
    /\ last = NoStep([stack |-> st, dictionary |-> d, user_words_top |-> 0,
                      compiling |-> FALSE, current_def_start |-> 0])
    /\ colon_dict_top = 0
    /\ lines_read = 0
    /\ unread = <<>>
    /\ continued = FALSE
    /\ input_kind = kind
    /\ prev = [res |-> "none", word |-> <<>>, stack |-> st]
    /\ registered = {}
    /\ pushed = <<>>
    /\ popped = <<>>

Init == InitFrom(<<>>, init_builtins(Len(BuiltinNames)), "words")

InitNumbers == InitFrom(<<>>, init_builtins(Len(BuiltinNames)), "numbers")

InitLong == InitFrom(<<>>, init_builtins(Len(BuiltinNames)), "long")

InitShuffle == InitFrom(<<>>, init_builtins(Len(BuiltinNames)), "shuffle")
InitDictionary ==
    InitFrom(<<>>, init_builtins(Len(BuiltinNames)), "dictionary")

(***************************************************************************)
(* The loop of run.                                                        *)
(***************************************************************************)
Prompt == IF compiling THEN <<Str(": ")>> ELSE <<Str("ok> ")>>

SetSession(s) ==
    /\ stack' = s.stack
    /\ dictionary' = s.dictionary
    /\ user_words_top' = s.user_words_top
    /\ compiling' = s.compiling
    /\ current_def_start' = s.current_def_start

\* the prompt, and read_line delivers a line: the next line that is typed,
\* or what is left unread of the line before
ReadLine ==
    /\ pc = "read"
    /\ \E r \in (IF unread # <<>> THEN {read_line(unread)}
                ELSE IF lines_read < MaxLines THEN Typed \cup TypedLast
                ELSE {}) :
        /\ r.ok
        /\ input_buffer' = r.buffer
        /\ unread' = r.rest
    /\ pos' = 0
    /\ pc' = "eval"
    /\ out' = Prompt
    /\ last' = NoStep(Session)
    /\ lines_read' = IF unread = <<>> THEN lines_read + 1 ELSE lines_read
    /\ continued' = (unread # <<>>)
    /\ prev' = Summary(NoStep(Session))
    /\ UNCHANGED <<stack, dictionary, user_words_top, compiling,
                   current_def_start, exit_code, overflow_checks, start_outcome,
                   colon_dict_top, input_kind,
                   registered, pushed, popped>>

\* the prompt, read_line reports the end of the input, having stored the
\* bytes it read before it, and _start exits
ReadEof ==
    /\ pc = "read"
    /\ \E r \in (IF unread # <<>> THEN {read_line(unread)}
                ELSE {read_line(<<>>)} \cup TypedLast) :
        /\ ~r.ok
        /\ input_buffer' = r.buffer \o SubSeq(input_buffer, Len(r.buffer) + 1,
                                              Len(input_buffer))
        /\ unread' = r.rest
    /\ pc' = "exited"
    /\ exit_code' = 0
    /\ out' = Prompt
    /\ last' = NoStep(Session)
    /\ prev' = Summary(last)
    /\ UNCHANGED <<stack, dictionary, user_words_top, compiling,
                   current_def_start, pos, overflow_checks, start_outcome,
                   colon_dict_top, lines_read,
                   continued, input_kind,
                   registered, pushed, popped>>

Step == process_token(Session, input_buffer, pos)

\* the token of a turn that appended an entry to the dictionary
NewlyRegistered(turn) ==
    IF Len(turn.r.s.dictionary) > Len(dictionary) THEN {turn.word} ELSE {}

\* the build gets through the copy of the word of the turn: it runs as
\* written, or the word is refused as too long before the copy
WordCopied(turn) ==
    start_outcome = "killed_in_copy" => Len(turn.word) >= WORD_BUFFER_SIZE

\* the end of the line that also leaves compile mode
EndOfLine_resets ==
    /\ pc = "eval"
    /\ \E turn \in {Step} :
        /\ turn.eol
        /\ pc' = "read"
        /\ pos' = turn.pos
        /\ out' = out \o <<Str("ok\n")>>
        /\ compiling' = FALSE
        /\ last' = [res |-> "eol", err |-> "", word |-> <<>>, before |-> Session]
        /\ prev' = Summary(last)
        /\ UNCHANGED <<stack, dictionary, user_words_top,
                       current_def_start, input_buffer, exit_code,
                       overflow_checks,
                       start_outcome, colon_dict_top, lines_read,
                       unread, continued, input_kind,
                       registered, pushed, popped>>

\* process_line reaches the end of the line and returns Ok(false)
EndOfLine ==
    /\ pc = "eval"
    /\ \E turn \in {Step} :
        /\ turn.eol
        /\ pc' = "read"
        /\ pos' = turn.pos
        /\ out' = out \o (IF compiling THEN <<>> ELSE <<Str("ok\n")>>)
        /\ last' = [res |-> "eol", err |-> "", word |-> <<>>, before |-> Session]
        /\ prev' = Summary(last)
        /\ UNCHANGED <<stack, dictionary, user_words_top, compiling,
                       current_def_start, input_buffer, exit_code,
                       overflow_checks,
                       start_outcome, colon_dict_top, lines_read,
                       unread, continued, input_kind,
                       registered, pushed, popped>>

\* the next word is evaluated and process_line goes on
EvalOk ==
    /\ pc = "eval"
    /\ \E turn \in {Step} :
        /\ ~turn.eol
        /\ turn.r.res = "ok"
        /\ WordCopied(turn)
        /\ SetSession(turn.r.s)
        /\ pos' = turn.pos
        /\ out' = out \o turn.r.out
        /\ last' = [res |-> "ok", err |-> "", word |-> turn.word, before |-> Session]
        /\ colon_dict_top' = IF ~compiling /\ turn.r.s.compiling
                             THEN Len(dictionary) ELSE colon_dict_top
        /\ registered' = registered \cup NewlyRegistered(turn)
        /\ prev' = Summary(last)
        /\ UNCHANGED <<input_buffer, pc, exit_code, overflow_checks,
                       start_outcome, lines_read,
                       unread, continued, input_kind, pushed, popped>>

\* the failure that is reported while process_line goes on with the line
EvalErr_goes_on ==
    /\ pc = "eval"
    /\ \E turn \in {Step} :
        /\ ~turn.eol
        /\ turn.r.res = "err"
        /\ WordCopied(turn)
        /\ LET e == run_error(turn.r.s, turn.r.err)
           IN  /\ SetSession(e.s)
               /\ out' = out \o turn.r.out \o e.out
        /\ pos' = turn.pos
        /\ pc' = "eval"
        /\ last' = [res |-> "err", err |-> turn.r.err, word |-> turn.word,
                    before |-> Session]
        /\ prev' = Summary(last)
        /\ UNCHANGED <<input_buffer, exit_code, overflow_checks,
                       start_outcome, colon_dict_top,
                       lines_read,
                       unread, continued, input_kind,
                       registered, pushed, popped>>

\* the next word fails: process_line returns Err and run reports it
EvalErr ==
    /\ pc = "eval"
    /\ \E turn \in {Step} :
        /\ ~turn.eol
        /\ turn.r.res = "err"
        /\ WordCopied(turn)
        /\ LET e == run_error(turn.r.s, turn.r.err)
           IN  /\ SetSession(e.s)
               /\ out' = out \o turn.r.out \o e.out
        /\ pos' = turn.pos
        /\ pc' = "read"
        /\ last' = [res |-> "err", err |-> turn.r.err, word |-> turn.word,
                    before |-> Session]
        /\ prev' = Summary(last)
        /\ UNCHANGED <<input_buffer, exit_code, overflow_checks,
                       start_outcome, colon_dict_top,
                       lines_read,
                       unread, continued, input_kind,
                       registered, pushed, popped>>

\* bye: process_line returns Ok(true), run returns and _start exits with 0
EvalExit ==
    /\ pc = "eval"
    /\ \E turn \in {Step} :
        /\ ~turn.eol
        /\ turn.r.res = "exit"
        /\ WordCopied(turn)
        /\ SetSession(turn.r.s)
        /\ pos' = turn.pos
        /\ pc' = "exited"
        /\ exit_code' = 0
        /\ out' = out \o turn.r.out
        /\ last' = [res |-> "exit", err |-> "", word |-> turn.word,
                    before |-> Session]
        /\ prev' = Summary(last)
        /\ UNCHANGED <<input_buffer, overflow_checks,
                       start_outcome, colon_dict_top, lines_read,
                       unread, continued, input_kind,
                       registered, pushed, popped>>

\* the next word panics: the panic handler exits with 1
EvalPanic ==
    /\ pc = "eval"
    /\ \E turn \in {Step} :
        /\ ~turn.eol
        /\ turn.r.res = "panic"
        /\ WordCopied(turn)
        /\ SetSession(turn.r.s)
        /\ pos' = turn.pos
        /\ pc' = "panicked"
        /\ exit_code' = 1
        /\ out' = out \o turn.r.out \o <<Str("\nPanic occurred!\n")>>
        /\ last' = [res |-> "panic", err |-> "", word |-> turn.word,
                    before |-> Session]
        /\ prev' = Summary(last)
        /\ UNCHANGED <<input_buffer, overflow_checks,
                       start_outcome, colon_dict_top, lines_read,
                       unread, continued, input_kind,
                       registered, pushed, popped>>

\* the build that is killed in the word copy: the next word is short enough
\* to be copied, and the process dies by SIGSEGV with nothing more written
EvalKilled ==
    /\ pc = "eval"
    /\ start_outcome = "killed_in_copy"
    /\ \E turn \in {Step} :
        /\ ~turn.eol
        /\ Len(turn.word) < WORD_BUFFER_SIZE
    /\ pc' = "killed"
    /\ UNCHANGED <<stack, dictionary, user_words_top, compiling,
                   current_def_start, input_buffer, pos, exit_code, out,
                   overflow_checks, start_outcome, last, colon_dict_top,
                   lines_read, unread, continued, input_kind,
                   prev, registered, pushed, popped>>

Next ==
    \/ ReadLine
    \/ ReadEof
    \/ EndOfLine
    \/ EvalOk
    \/ EvalErr
    \/ EvalExit
    \/ EvalPanic
    \/ EvalKilled

Spec == Init /\ [][Next]_vars

\* the same program in a session about numbers, and in one about the sizes
\* of the buffers
SpecNumbers == InitNumbers /\ [][Next]_vars

SpecLong == InitLong /\ [][Next]_vars

SpecShuffle == InitShuffle /\ [][Next]_vars
SpecDictionary == InitDictionary /\ [][Next]_vars

(***************************************************************************)
(* ForthStack alone: pushes onto ForthStack::new(), then pops.  The first  *)
(* FreePushes values are any of PushValues, the later ones count the       *)
(* pushes.                                                                 *)
(***************************************************************************)
FreePushes == 2     \* pushes whose value is chosen freely

PushValues(n) == IF n < FreePushes THEN {I32_MIN, 0, I32_MAX} ELSE {n}

InitStack ==
    /\ InitFrom(<<>>, <<>>, "stack")
    /\ pc = "stack"

\* the variables of the interpreter around the stack
around == <<dictionary, user_words_top, compiling, current_def_start,
            input_buffer, pos, pc, exit_code, out, overflow_checks,
            start_outcome, last,
            colon_dict_top, lines_read, unread, continued, input_kind,
            prev, registered>>

StackPush ==
    /\ pc = "stack"
    /\ popped = <<>>
    /\ \E v \in PushValues(Len(pushed)) :
        LET r == push(stack, v)
        IN  /\ r.ok
            /\ stack' = r.stack
            /\ pushed' = Append(pushed, v)
    /\ UNCHANGED <<around, popped>>

StackPop ==
    /\ pc = "stack"
    /\ LET r == pop(stack)
       IN  /\ r.ok
           /\ stack' = r.stack
           /\ popped' = Append(popped, r.value)
    /\ UNCHANGED <<around, pushed>>

NextStack ==
    \/ StackPush
    \/ StackPop

SpecStack == InitStack /\ [][NextStack]_vars

(***************************************************************************)
(* Properties.                                                             *)
(***************************************************************************)
IsPrefix(a, b) == Len(a) <= Len(b) /\ SubSeq(b, 1, Len(a)) = a

\* the rest of the line holds a token that was not evaluated
TokensLeft == ~AtEnd(input_buffer, SkipWhitespace(input_buffer, pos))

\* the state right after a token was evaluated
Evaluated == last.res \in {"ok", "err", "exit", "panic"}

\* the state right after the evaluation of a token failed with Err
Failed == last.res = "err"

\* C1: the session starts Interactive; compiling becomes true only when ":"
\* succeeds in Interactive state, which records user_words_top as
\* current_def_start; it becomes false only when ";" succeeds or when run
\* aborts after an Err; neither the end of a line nor the reading of the next
\* line changes it.
C1_ModeChangesOnlyByColonSemicolonAbort ==
    /\ ~compiling
    /\ [][ /\ (~compiling /\ compiling') =>
                /\ pc = "eval" /\ last'.res = "ok" /\ last'.word = t_colon
                /\ current_def_start' = user_words_top
           /\ (compiling /\ ~compiling') =>
                /\ pc = "eval"
                /\ \/ last'.res = "ok" /\ last'.word = t_semicolon
                   \/ last'.res = "err"
           /\ (last'.res \in {"eol", "none"}) => compiling' = compiling
         ]_vars

\* a definition opened on an earlier line is open when the evaluation of the
\* next line begins
C1_Witness ==
    /\ pc = "eval" /\ pos = 0 /\ last.res = "none"
    /\ lines_read >= 2 /\ compiling

\* C2: after a line whose evaluation failed the session is Interactive, and
\* if a definition was in progress user_words_top equals current_def_start.
C2_FailedLineLeavesInteractive ==
    (pc = "read" /\ Failed) =>
        /\ ~compiling
        /\ (last.before.compiling => user_words_top = current_def_start)

C2_Witness == pc = "read" /\ Failed /\ last.before.compiling

\* C3: after a line that failed while a definition was in progress, the
\* dictionary is as it was before the matching ":": no entry created since
\* then is left.
C3_FailedDefinitionLeavesNoEntry ==
    (pc = "read" /\ Failed /\ last.before.compiling) =>
        Len(dictionary) = colon_dict_top

\* C4: when a token fails, the line ends there: run reports "Error: ", the
\* session goes back to reading with no exit, the dictionary is kept and the
\* stack keeps everything but the operands the failing token removed; and no
\* token is evaluated before the next line is read.
C4_FailureEndsTheLineOnly ==
    [][ /\ (pc = "eval" /\ last'.res = "err") =>
             /\ pc' = "read" /\ exit_code' = -1
             /\ dictionary' = dictionary
             /\ IsPrefix(stack', stack) /\ Len(stack) - Len(stack') <= 2
             /\ \E k \in 1..Len(out') : out'[k] = Str("Error: ")
        /\ (pc = "read") => (last'.res = "none" /\ pc' \in {"eval", "exited"})
      ]_vars

\* a token failed after another one had left an item on the stack, and a
\* token behind it was not evaluated
C4_Witness ==
    /\ pc = "read" /\ Failed /\ TokensLeft
    /\ pos > Len(last.word) /\ Len(stack) > 0

\* C5: the process never exits with code 1, not even in the build whose
\* arithmetic wraps instead of panicking on overflow.
C5_NeverExitCode1 == ~(exit_code = 1 /\ ~overflow_checks)

\* the builtins that take items from the stack, with the number they need
StackNeeds ==
    [id \in 1..Len(BuiltinNames) |->
        IF id \in {BUILTIN_ADD, BUILTIN_SUB, BUILTIN_MUL, BUILTIN_DIV,
                   BUILTIN_MOD, BUILTIN_EQUAL, BUILTIN_LESS, BUILTIN_GREATER,
                   BUILTIN_SWAP, BUILTIN_OVER} THEN 2
        ELSE IF id = BUILTIN_ROT THEN 3
        ELSE IF id \in {BUILTIN_DROP, BUILTIN_DOT, BUILTIN_DUP} THEN 1
        ELSE 0]

\* the last evaluated token was the builtin id on a stack of fewer items than
\* it needs
UnderFull(id) ==
    /\ Evaluated /\ last.word = BuiltinNames[id]
    /\ Len(last.before.stack) < StackNeeds[id]

\* C6: a stack-consuming builtin on a stack with fewer items than it needs
\* signals Stack underflow or Stack empty and leaves the stack as it was.
C6_UnderflowLeavesStack ==
    \A id \in 1..Len(BuiltinNames) :
        UnderFull(id) =>
            /\ last.res = "err"
            /\ last.err \in {"Stack underflow", "Stack empty"}
            /\ stack = last.before.stack

\* the last evaluated token was "/" or "mod" with 0 on top of two items or more
DividedByZero ==
    /\ Evaluated /\ last.word \in {t_div, t_mod}
    /\ Len(last.before.stack) >= 2
    /\ last.before.stack[Len(last.before.stack)] = 0

\* C7: "/" and "mod" with 0 on top of two items or more signal Division by
\* zero, push nothing and have removed both operands: the stack is the
\* former one without its two top items.
C7_DivisionByZeroRemovesOperands ==
    DividedByZero =>
        /\ last.res = "err" /\ last.err = "Division by zero"
        /\ stack = SubSeq(last.before.stack, 1, Len(last.before.stack) - 2)

\* a division by zero above a third item
C7_Witness == DividedByZero /\ Len(last.before.stack) >= 3 /\ Len(stack) >= 1

\* the last evaluated token had to push onto a stack of STACK_SIZE items
PushedOnFull ==
    /\ Evaluated /\ Len(last.before.stack) = STACK_SIZE
    /\ \/ parse_number(last.word).some
       \/ last.word \in {t_dup, t_over}

\* C8: on a stack of 64 items a number literal, dup and over signal Stack
\* overflow and leave the size and the items of the stack as they were.
C8_OverflowLeavesStack ==
    PushedOnFull =>
        /\ last.res = "err" /\ last.err = "Stack overflow"
        /\ stack = last.before.stack

\* "over" on a full stack whose two top items differ
C8_Witness ==
    /\ PushedOnFull /\ last.word = t_over
    /\ stack[STACK_SIZE] # stack[STACK_SIZE - 1]

\* C9: the stack never holds more than 64 items (and its size, top, is never
\* below 0).
C9_StackWithinCapacity == Len(stack) >= 0 /\ Len(stack) <= STACK_SIZE

\* a number literal was refused at the ceiling
C9_Witness ==
    /\ Len(stack) = STACK_SIZE /\ Failed /\ last.err = "Stack overflow"
    /\ parse_number(last.word).some

\* the words looked up in the properties of the dictionary
QueryWords == {t_name16, t_name17, t_foo, t_sq, t_dup, t_colon, <<>>}

\* the numbers, from 0, of the entries whose name is exactly w
Matching(d, w) == {i \in 0..(Len(d) - 1) : d[i + 1].name = w}

\* C10: lookup returns the most recently appended entry among those of the
\* same name, and not-found only when no entry has the length and the bytes
\* of the queried name.
C10_LookupReturnsNewest ==
    \A w \in QueryWords :
        LET f == find_word(dictionary, w)
            m == Matching(dictionary, w)
        IN  IF m = {} THEN ~f.found
            ELSE f.found /\ f.index \in m /\ \A i \in m : i <= f.index

\* two entries have the name that was just looked up
C10_Witness ==
    /\ last.res = "ok" /\ last.word = t_name16
    /\ Cardinality(Matching(dictionary, t_name16)) >= 2

\* the token is not a number and has no entry in the dictionary of s
Unresolved(s, word) ==
    /\ ~parse_number(word).some /\ ~parse_number(word).panic
    /\ ~find_word(s.dictionary, word).found

\* the step that was just taken handed its token to execute_word
Executed == Evaluated /\ Len(last.word) < WORD_BUFFER_SIZE

\* C11: the dictionary is append-only with a ceiling of 32 entries: no step
\* removes or changes an entry or makes dict_top exceed 32, and with 32
\* entries the definition of a user word signals Dictionary full, and the
\* registration of a builtin is dropped, leaving the dictionary as it was.
C11_DictionaryAppendOnly ==
    [][ /\ IsPrefix(dictionary, dictionary')
        /\ Len(dictionary') <= DICTIONARY_SIZE
        /\ ( /\ Executed' /\ last'.before.compiling
             /\ Unresolved(last'.before, last'.word)
             /\ Len(dictionary) = DICTIONARY_SIZE )
           => /\ last'.res = "err" /\ last'.err = "Dictionary full"
              /\ dictionary' = dictionary
        /\ Len(dictionary') = DICTIONARY_SIZE
           => \A id \in 1..Len(BuiltinNames) :
                add_builtin(dictionary', BuiltinNames[id], id) = dictionary'
      ]_vars

\* a definition was refused by the full dictionary
C11_Witness ==
    /\ Failed /\ last.err = "Dictionary full"
    /\ Len(dictionary) = DICTIONARY_SIZE
    /\ last.before.dictionary = dictionary

\* the last step appended exactly one user entry of the given name, whose
\* span is [current_def_start, user_words_top)
AppendedUser(name) ==
    /\ Len(dictionary) = Len(last.before.dictionary) + 1
    /\ IsPrefix(last.before.dictionary, dictionary)
    /\ LET entry == dictionary[Len(dictionary)]
       IN  /\ entry.name = name
           /\ ~entry.is_builtin
           /\ entry.user_word_start = last.before.current_def_start
           /\ entry.user_word_start + entry.user_word_len
                = last.before.user_words_top

\* the last step failed with err and left the stack and the dictionary
FailedUnchanged(err) ==
    /\ last.res = "err" /\ last.err = err
    /\ stack = last.before.stack
    /\ dictionary = last.before.dictionary

\* C12 (as claimed): a token handed to execute_word that is not a number and
\* has no entry signals Unknown word in Interactive state, leaving the stack
\* and the dictionary; in Compiling state it appends one user entry named by
\* the token, leaves the stack and raises no error.
C12_UnknownTokenByMode ==
    (Executed /\ Unresolved(last.before, last.word)) =>
        IF ~last.before.compiling THEN FailedUnchanged("Unknown word")
        ELSE /\ last.res = "ok"
             /\ stack = last.before.stack
             /\ AppendedUser(last.word)

\* C12 (amended): in Compiling state the entry is named by the first 16
\* bytes of the token, and with 32 entries present the token signals
\* Dictionary full instead and changes neither the stack nor the dictionary.
C12_UnknownTokenByModeAmended ==
    (Executed /\ Unresolved(last.before, last.word)) =>
        IF ~last.before.compiling THEN FailedUnchanged("Unknown word")
        ELSE IF Len(last.before.dictionary) >= DICTIONARY_SIZE
        THEN FailedUnchanged("Dictionary full")
        ELSE /\ last.res = "ok"
             /\ stack = last.before.stack
             /\ AppendedUser(SubSeq(last.word, 1,
                                    Min(Len(last.word), MAX_WORD_NAME_LEN)))

\* a name longer than 16 bytes was defined
C12_Witness ==
    /\ last.res = "ok" /\ last.before.compiling
    /\ Unresolved(last.before, last.word)
    /\ Len(last.word) > MAX_WORD_NAME_LEN
    /\ Len(dictionary) = Len(last.before.dictionary) + 1

\* the token is not a number and lookup finds a user entry for it in s
ResolvesToUser(s, word) ==
    /\ ~parse_number(word).some /\ ~parse_number(word).panic
    /\ LET f == find_word(s.dictionary, word)
       IN  f.found /\ ~s.dictionary[f.index + 1].is_builtin

\* C13: a token that resolves to a user entry has no effect in either mode:
\* no error, and the stack, the dictionary, the offset into the body buffer
\* and the compiling flag are as before.
C13_UserWordNoEffect ==
    (Executed /\ ResolvesToUser(last.before, last.word)) =>
        /\ last.res = "ok"
        /\ stack = last.before.stack
        /\ dictionary = last.before.dictionary
        /\ user_words_top = last.before.user_words_top
        /\ compiling = last.before.compiling

\* a user word was evaluated in Interactive state on a stack with items
C13_Witness ==
    /\ Executed /\ ResolvesToUser(last.before, last.word)
    /\ ~last.before.compiling
    /\ Len(stack) > 0
    /\ lines_read = MaxLines

\* C14: ":" while compiling signals Already compiling and ";" while not
\* compiling signals Not compiling; the failing builtin changes neither the
\* compiling flag, current_def_start, the stack nor the dictionary (the flag
\* is cleared afterwards by the Err arm of run, not by the builtin).
C14_ColonSemicolonErrors ==
    /\ (Executed /\ last.word = t_colon /\ last.before.compiling) =>
            /\ last.res = "err" /\ last.err = "Already compiling"
            /\ execute_builtin(last.before, BUILTIN_COLON).s = last.before
            /\ Session = run_error(last.before, last.err).s
            /\ stack = last.before.stack
            /\ dictionary = last.before.dictionary
            /\ current_def_start = last.before.current_def_start
    /\ (Executed /\ last.word = t_semicolon /\ ~last.before.compiling) =>
            /\ last.res = "err" /\ last.err = "Not compiling"
            /\ execute_builtin(last.before, BUILTIN_SEMICOLON).s = last.before
            /\ Session = last.before

\* ":" was evaluated inside a definition
C14_Witness ==
    /\ Executed /\ last.word = t_colon /\ last.before.compiling
    /\ last.err = "Already compiling"

\* C15: the session ends exactly when bye is evaluated or read_line reports
\* the end of the input, and then with exit code 0; stated for the build
\* that runs as written and without overflow checks, where arithmetic wraps.
C15_SessionEndsOnByeOrEof ==
    (~overflow_checks /\ start_outcome = "runs") =>
        /\ pc \in {"read", "eval"} => (exit_code = -1 /\ last.res # "exit")
        /\ pc \notin {"read", "eval"} =>
              /\ exit_code = 0
              /\ \/ last.res = "exit" /\ last.word = t_bye
                 \/ last.res = "none" /\ ~read_line(unread).ok

\* the last token was refused as too long
TooLong == last.res = "err" /\ last.err = "Word too long"

\* C16: a token yields Word too long exactly when it is longer than 64
\* bytes, and every token that fits is evaluated normally, as execute_word
\* evaluates it.
C16_WordTooLongBeyond64 ==
    Evaluated =>
        /\ TooLong <=> Len(last.word) > 64
        /\ ~TooLong =>
              LET r == execute_word(last.before, last.word)
              IN  /\ last.res = r.res /\ last.err = r.err
                  /\ stack = r.s.stack /\ dictionary = r.s.dictionary

\* C17: a line longer than the line buffer is cut at the capacity of the
\* buffer and what was cut off is never evaluated, neither with that line
\* nor as a line of its own.
C17_CutOffNeverEvaluated ==
    /\ Len(input_buffer) < INPUT_BUFFER_SIZE
    /\ continued => ~Evaluated

\* the digits of a token: what follows its leading "-", if it has one
DigitsOf(word) ==
    IF Len(word) > 0 /\ word[1] = 45 THEN Tail(word) ELSE word

\* an optional single "-" followed by one or more decimal digits
IsNumeral(word) ==
    /\ Len(DigitsOf(word)) >= 1
    /\ \A i \in 1..Len(DigitsOf(word)) :
            DigitsOf(word)[i] >= 48 /\ DigitsOf(word)[i] <= 57

\* the value of at most nine decimal digits
RECURSIVE NineDigits(_)
NineDigits(ds) ==
    IF Len(ds) = 0 THEN 0
    ELSE 10 * NineDigits(SubSeq(ds, 1, Len(ds) - 1)) + (ds[Len(ds)] - 48)

\* the decimal value of a numeral of at most nine digits
DecimalValue(word) ==
    IF word[1] = 45 THEN -NineDigits(DigitsOf(word))
    ELSE NineDigits(DigitsOf(word))

\* the last step handed its token to lookup: the builtin of the entry ran,
\* a user entry did nothing, or the name was defined or reported unknown
ResolvedAsName ==
    LET s == last.before
        f == find_word(s.dictionary, last.word)
        entry == s.dictionary[f.index + 1]
        first16 == SubSeq(last.word, 1, Min(Len(last.word), MAX_WORD_NAME_LEN))
    IN  IF f.found /\ entry.is_builtin
        THEN LET r == execute_builtin(s, entry.builtin_id)
             IN  last.res = r.res /\ last.err = r.err /\ stack = r.s.stack
        ELSE IF f.found THEN last.res = "ok" /\ stack = s.stack
        ELSE IF ~s.compiling THEN FailedUnchanged("Unknown word")
        ELSE \/ FailedUnchanged("Dictionary full")
             \/ last.res = "ok" /\ stack = s.stack /\ AppendedUser(first16)

\* C18: a token is a number exactly when it is an optional "-" followed by
\* one or more digits; in either mode it is then handed to push with its
\* decimal value, and is not defined; any other token is resolved as a name.
C18_NumbersParsedFirst ==
    Executed =>
        IF IsNumeral(last.word)
        THEN /\ dictionary = last.before.dictionary
             /\ IF Len(last.before.stack) >= STACK_SIZE
                THEN FailedUnchanged("Stack overflow")
                ELSE /\ last.res = "ok"
                     /\ compiling = last.before.compiling
                     /\ Len(stack) = Len(last.before.stack) + 1
                     /\ IsPrefix(last.before.stack, stack)
                     /\ Len(DigitsOf(last.word)) <= 9
                            => stack[Len(stack)] = DecimalValue(last.word)
                     /\ last.word = t_max => stack[Len(stack)] = I32_MAX
                     /\ last.word = t_min => stack[Len(stack)] = I32_MIN
        ELSE ResolvedAsName

\* the stack of s with its two top items replaced by v
Replaced2(s, v) == Append(SubSeq(s.stack, 1, Len(s.stack) - 2), v)

\* C19: numeric overflow is never an error: "+", "-" and "*" on two items
\* succeed and leave the result reduced modulo 2^32 into the 32-bit range,
\* and so do the accumulation of the digits and the negation in the parser
\* (2147483648 is read as -2147483648).
C19_ArithmeticWraps ==
    LET s == last.before
        n == Len(s.stack)
    IN  /\ (Executed /\ n >= 2 /\ last.word \in {t_plus, t_minus, t_times}) =>
              /\ last.res = "ok"
              /\ last.word = t_plus =>
                    stack = Replaced2(s, WrappingAdd(s.stack[n - 1], s.stack[n]))
              /\ last.word = t_minus =>
                    stack = Replaced2(s, WrappingSub(s.stack[n - 1], s.stack[n]))
              /\ last.word = t_times =>
                    stack = Replaced2(s, WrappingMul(s.stack[n - 1], s.stack[n]))
        /\ (Executed /\ n < STACK_SIZE /\ IsNumeral(last.word)) =>
              /\ last.res = "ok"
              /\ last.word \in {t_big, t_min} => stack[Len(stack)] = I32_MIN

\* the signed decimal representation of a 32-bit value
SignedDecimal(v) ==
    IF v = 0 THEN <<48>>
    ELSE IF v > 0 THEN Digits(v)
    ELSE IF v = I32_MIN THEN <<45>> \o t_big
    ELSE <<45>> \o Digits(-v)

\* the bytes of something written
TextOf(w) == IF w = Str("0") THEN <<48>> ELSE w.bytes

\* C20: "." on a stack with an item removes the top item and writes its
\* signed decimal representation and one space, whatever the value: zero,
\* positive, negative or -2147483648.
C20_DotPrintsEveryValue ==
    (Executed /\ last.word = t_dot /\ Len(last.before.stack) >= 1) =>
        LET st == last.before.stack
        IN  /\ last.res = "ok"
            /\ stack = SubSeq(st, 1, Len(st) - 1)
            /\ Len(out) >= 2
            /\ out[Len(out)] = Str(" ")
            /\ TextOf(out[Len(out) - 1]) = SignedDecimal(st[Len(st)])

\* the items of a sequence from the last to the first
Reverse(q) == [i \in 1..Len(q) |-> q[Len(q) + 1 - i]]

\* C21: after n <= 64 pushes onto an empty stack, the pops return the pushed
\* values in the reverse order of the pushes, and n pops leave the stack
\* empty.
C21_PopsReverseThePushes ==
    pc = "stack" =>
        LET n == Len(pushed)
            k == Len(popped)
        IN  /\ k <= n /\ n <= STACK_SIZE
            /\ popped = Reverse(SubSeq(pushed, n - k + 1, n))
            /\ stack = SubSeq(pushed, 1, n - k)
            /\ k = n => stack = <<>>

\* 64 values were pushed and 64 values were popped
C21_Witness ==
    /\ pc = "stack"
    /\ Len(pushed) = STACK_SIZE /\ Len(popped) = STACK_SIZE
    /\ popped[STACK_SIZE] = I32_MIN /\ popped[STACK_SIZE - 1] = I32_MAX

\* the step just taken evaluated the builtin named w
Ran(w) == Executed /\ last.word = w

\* the step just taken and the one before it evaluated w2 after w1, and both
\* succeeded
RanPair(w1, w2) ==
    /\ Ran(w2) /\ last.res = "ok"
    /\ prev.word = w1 /\ prev.res = "ok"

\* C22: "dup drop" on a non-empty stack and "swap swap" on a stack of at
\* least two items leave the stack as it was before the pair: the same size
\* and the same items; when the first of the two fails (dup on a full stack)
\* the stack is also as before.
C22_PairsAreIdentity ==
    /\ RanPair(t_dup, t_drop) => stack = prev.stack
    /\ RanPair(t_swap, t_swap) => stack = prev.stack
    /\ (Ran(t_dup) /\ Len(last.before.stack) >= 1) =>
            /\ last.res \in {"ok", "err"}
            /\ last.res = "err" => stack = last.before.stack
    /\ (Ran(t_drop) /\ Len(last.before.stack) >= 1) => last.res = "ok"
    /\ (Ran(t_swap) /\ Len(last.before.stack) >= 2) => last.res = "ok"

\* "swap swap" ran on a stack of three items whose top two differ
C22_Witness ==
    /\ RanPair(t_swap, t_swap) /\ Len(prev.stack) = 3
    /\ prev.stack[3] # prev.stack[2]

\* "dup drop" ran on a stack of three items
C22_DupDropRan == RanPair(t_dup, t_drop) /\ Len(prev.stack) = 3

\* the items of a stack beneath its n topmost ones
Beneath(st, n) == SubSeq(st, 1, Len(st) - n)

\* the k-th item of a stack counted from the top
FromTop(st, k) == st[Len(st) + 1 - k]

\* the bytes that a sequence of writes puts on standard output
RECURSIVE Written(_)
Written(ws) ==
    IF Len(ws) = 0 THEN <<>>
    ELSE (CASE ws[1] = Str("<") -> <<60>>
            [] ws[1] = Str("> ") -> <<62, 32>>
            [] ws[1] = Str(" ") -> <<32>>
            [] OTHER -> TextOf(ws[1])) \o Written(Tail(ws))

\* "rot" on three items and "swap" on two succeed and leave b c a and b a
\* above the items beneath, for all values
RotSwapEffects ==
    LET st == last.before.stack
    IN  /\ (Ran(t_rot) /\ Len(st) >= 3) =>
                /\ last.res = "ok"
                /\ stack = Beneath(st, 3)
                        \o <<FromTop(st, 2), FromTop(st, 1), FromTop(st, 3)>>
        /\ (Ran(t_swap) /\ Len(st) >= 2) =>
                /\ last.res = "ok"
                /\ stack = Beneath(st, 2) \o <<FromTop(st, 1), FromTop(st, 2)>>

\* ".s" leaves the stack as it was, and after "1 2 3 rot" it writes
\* "<3> 2 3 1 "
DotsEffects ==
    /\ Ran(t_dots) => stack = last.before.stack
    /\ (Ran(t_dots) /\ prev.word = t_rot /\ prev.stack = <<1, 2, 3>>) =>
            /\ last.res = "ok"
            /\ Written(out) = <<60, 51, 62, 32, 50, 32, 51, 32, 49, 32>>

\* C23 (as claimed): with a b c on top "rot" leaves b c a, with a b on top
\* "over" leaves a b a and "swap" leaves b a, the items beneath unchanged,
\* for all values; "1 2 3 rot .s" dumps "<3> 2 3 1" and ".s" leaves the
\* stack unchanged.
C23_ShuffleEffects ==
    /\ RotSwapEffects
    /\ DotsEffects
    /\ (Ran(t_over) /\ Len(last.before.stack) >= 2) =>
            LET st == last.before.stack
            IN  /\ last.res = "ok"
                /\ stack = st \o <<FromTop(st, 2)>>

\* C23 (amended): as claimed for "rot", "swap" and ".s"; "over" leaves a b a
\* when the stack holds fewer than 64 items, and on a stack of 64 items it
\* signals Stack overflow and leaves the stack as it was.
C23_ShuffleEffectsBelowCapacity ==
    /\ RotSwapEffects
    /\ DotsEffects
    /\ (Ran(t_over) /\ Len(last.before.stack) >= 2) =>
            LET st == last.before.stack
            IN  IF Len(st) < STACK_SIZE
                THEN /\ last.res = "ok"
                     /\ stack = st \o <<FromTop(st, 2)>>
                ELSE /\ last.res = "err" /\ last.err = "Stack overflow"
                     /\ stack = st

\* "over" ran on a full stack, which it left as it was
C23_Witness ==
    /\ Ran(t_over) /\ Len(last.before.stack) = STACK_SIZE
    /\ last.res = "err" /\ stack = last.before.stack

\* "rot" ran on -2147483648 0 2147483647 0 and left the first item beneath
C23_RotRan ==
    /\ Ran(t_rot) /\ last.before.stack = <<I32_MIN, 0, I32_MAX, 0>>
    /\ stack = <<I32_MIN, I32_MAX, 0, 0>>

\* ".s" ran after "1 2 3 rot"
C23_DumpRan == Ran(t_dots) /\ prev.word = t_rot /\ prev.stack = <<1, 2, 3>>

\* the token is a number literal or the name of a builtin other than ":"
\* and ";"
Immediate(s, word) ==
    LET num == parse_number(word)
        f == find_word(s.dictionary, word)
    IN  \/ num.some
        \/ /\ ~num.some /\ ~num.panic /\ f.found
           /\ s.dictionary[f.index + 1].is_builtin
           /\ s.dictionary[f.index + 1].builtin_id
                    \notin {BUILTIN_COLON, BUILTIN_SEMICOLON}

\* C24: while Compiling, a number literal or a builtin other than ":" and ";"
\* has the result, the error and the stack that the same token has on the
\* same session in Interactive state: on success the definition goes on, on
\* failure it is aborted; and no token changes user_words_top.
C24_CompilingExecutesImmediately ==
    /\ Evaluated => user_words_top = last.before.user_words_top
    /\ (Executed /\ last.before.compiling
            /\ Immediate(last.before, last.word)) =>
            LET i == execute_word([last.before EXCEPT !.compiling = FALSE],
                                  last.word)
            IN  /\ last.res = i.res /\ last.err = i.err
                /\ stack = i.s.stack
                /\ dictionary = i.s.dictionary
                /\ last.res = "ok" => compiling
                /\ last.res = "err" => ~compiling

\* "dup" of ": sq dup * ;" failed with Stack empty and the definition was
\* aborted
C24_Witness ==
    /\ Ran(t_dup) /\ last.before.compiling /\ last.before.stack = <<>>
    /\ last.res = "err" /\ last.err = "Stack empty"
    /\ ~compiling

\* "*" of ": sq dup * ;" changed the stack while compiling
C24_TimesRan ==
    /\ Ran(t_times) /\ last.before.compiling /\ last.res = "ok"
    /\ stack # last.before.stack /\ compiling

\* a number literal was pushed while compiling
C24_LiteralRan ==
    /\ Ran(t_3) /\ last.before.compiling /\ last.res = "ok"
    /\ stack = Append(last.before.stack, 3)

\* the token about to be handed to execute_word was registered as a user
\* word by an earlier step
AboutToRunRegistered ==
    /\ pc = "eval" /\ ~Step.eol
    /\ Len(Step.word) < WORD_BUFFER_SIZE
    /\ Step.word \in registered

\* C25: a token that was registered as a user word resolves to an entry at
\* every later evaluation, whatever its length: the evaluation succeeds, it
\* is not reported as Unknown word and no second entry is appended.
C25_RegisteredTokenResolves ==
    [][ AboutToRunRegistered =>
            /\ find_word(dictionary, Step.word).found
            /\ last'.res = "ok"
            /\ dictionary' = dictionary ]_vars

\* C26: in every state each of the 20 builtin names resolves to the builtin
\* entry that init_builtins registered for it: no user entry shadows a
\* builtin.
C26_BuiltinsNeverShadowed ==
    \A id \in 1..Len(BuiltinNames) :
        /\ dictionary[id] = BuiltinEntry(BuiltinNames[id], id)
        /\ find_word(dictionary, BuiltinNames[id])
                = [found |-> TRUE, index |-> id - 1]

\* the name of a builtin was evaluated while compiling, with user entries in
\* the dictionary
C26_Witness ==
    /\ Executed /\ last.res = "ok" /\ last.before.compiling
    /\ \E id \in 1..Len(BuiltinNames) : last.word = BuiltinNames[id]
    /\ Len(last.before.dictionary) > Len(BuiltinNames)
    /\ dictionary = last.before.dictionary

\* what is left of standard input is the rest of a line that no newline
\* ends: the buffer holds the first bytes of the unterminated last line
LastLineCutShort ==
    /\ unread # <<>>
    /\ \A k \in 1..Len(unread) : ~IsNewline(unread[k])

\* C27: when the input ends before a line terminator, the bytes read for
\* that last line are discarded: none of its tokens is evaluated, and the
\* session ends with exit code 0 in the state the last terminated line left.
C27_UnterminatedLineDiscarded ==
    /\ LastLineCutShort => ~Evaluated
    /\ (pc = "exited" /\ last.res = "none") =>
            /\ exit_code = 0
            /\ Session = last.before

====
